---- MODULE Spec2Model ----
(***************************************************************************)
(* The interning pool of kg-symbol (src/src/lib.rs): the global registry   *)
(* SYMBOLS, the entries it points to, and the Symbol handle operations     *)
(* new, get, clone and drop, run by several threads.  Every atomic         *)
(* instruction that another thread can interleave with is its own step:    *)
(* taking the registry lock (with the lookup it protects), the fetch_add   *)
(* or fetch_sub on an entry's ref_count, and the locked remainder.         *)
(*                                                                         *)
(* Memory is modelled by address.  A handle is an address; what an         *)
(* operation on a handle does is decided by what is at that address when   *)
(* it runs.  Reading a freed block is undefined behaviour: the value read  *)
(* is a nondeterministic choice, and a write to a freed block is lost.     *)
(*                                                                         *)
(* ref_count is a usize.  A value n < 0 stands for the wrapped value       *)
(* 2^64 + n, which a fetch_sub on zero produces; on a usize "> 0" is       *)
(* "not zero", which is how Positive reads it.                             *)
(***************************************************************************)
EXTENDS Integers, FiniteSets, Sequences, TLC

\* ---- bounds of the model ----
\* Threads that run operations, and live Symbol values at any one time.
NumThreads == 2
MaxHandles == 3

Threads == 1..NumThreads
\* The mutex of SYMBOLS unlocked.
NoThread == 0
\* The addresses Global.alloc can return, and Option::None of a lookup.
Addrs == {1, 2, 3}
Null == 0
\* Where lazy_static's initialiser put the entry of "".
EmptyAddr == 1

\* The string values interned; "" is the empty string of SYMBOLS' initialiser.
Empty == ""
Contents == {"", "a", "b"}

\* ref_count of a persistent entry / of an ordinary new entry (lib.rs:60).
PersistentCount == 2
FreshCount == 1

VARIABLES
    heap,       \* Addrs -> [alloc, content, ref_count]: the Header+payload blocks
    symbols,    \* SYMBOLS: the set of SymbolPtr in the registry (a set of addresses)
    lock,       \* the thread holding SYMBOLS' mutex, or NoThread
    pc,         \* per thread: where it is in the operation it runs
    arg,        \* per thread: `value` of the get/new in flight
    ptr,        \* per thread: `s` found by the lookup, or `self.0` in destroy
    handles,    \* live Symbol values: <<address, content built from>> -> how many
    dying,      \* addresses whose count a drop took from one to zero, not yet freed
    replaced,   \* history: some new() has put a fresh entry in a dying one's place
    items,      \* SymbolMap.items: the sequence of [key, val] pairs
    map,        \* SymbolMap.map: the optional index from key to position
    last,       \* the map operation that ran last, its arguments and what it returned
    ops         \* how many map operations have run since the map was filled

poolVars == <<heap, symbols, lock, pc, arg, ptr, handles, dying>>
mapVars == <<items, map, last, ops>>
vars == <<poolVars, replaced, mapVars>>

HandleIds == Addrs \X Contents

FreeBlock == [alloc |-> FALSE, content |-> Empty, ref_count |-> 0]

\* ---- SymbolPtr ----

\* Mutant of SymbolPtrAlloc: `persistent` is ignored.
SymbolPtrAllocNotPersistent(h, a, value, persistent) ==
    [h EXCEPT ![a] = [alloc |-> TRUE, content |-> value, ref_count |-> 1]]

\* SymbolPtr::alloc: a block at address a holding value, counted 2 or 1.
SymbolPtrAlloc(h, a, value, persistent) ==
    [h EXCEPT ![a] = [alloc |-> TRUE, content |-> value,
                      ref_count |-> IF persistent THEN PersistentCount ELSE FreshCount]]

\* SymbolPtr::destroy: Global.dealloc of the block.
SymbolPtrDestroy(h, a) == [h EXCEPT ![a] = FreeBlock]

\* Header::as_ref of an allocated block.
AsRef(h, a) == h[a].content

\* HashSet::get(value): the registry compares SymbolPtr by content.
Lookup(h, set, value) ==
    IF \E a \in set : AsRef(h, a) = value
    THEN CHOOSE a \in set : AsRef(h, a) = value
    ELSE Null

\* Mutant of Replace: HashSet::insert(p), which keeps an entry equal to p.
ReplaceInserts(h, set, p) ==
    IF \E a \in set : AsRef(h, a) = AsRef(h, p) THEN set ELSE set \cup {p}

\* HashSet::replace(p): p takes the place of the entry equal to it by content.
Replace(h, set, p) == (set \ {a \in set : AsRef(h, a) = AsRef(h, p)}) \cup {p}

\* HashSet::remove(value).
Remove(h, set, value) == set \ {a \in set : AsRef(h, a) = value}

\* fetch_add(1) / fetch_sub(1) on the ref_count at address a; lost on a freed block.
FetchAdd(h, a) ==
    IF h[a].alloc THEN [h EXCEPT ![a].ref_count = @ + 1] ELSE h

FetchSub(h, a) ==
    IF h[a].alloc THEN [h EXCEPT ![a].ref_count = @ - 1] ELSE h

\* `prior > 0` on a usize.
Positive(n) == n # 0

\* ---- bookkeeping of the live handles ----

LiveCount == LET RECURSIVE Sum(_)
                 Sum(S) == IF S = {} THEN 0
                           ELSE LET x == CHOOSE y \in S : TRUE
                                IN handles[x] + Sum(S \ {x})
             IN Sum(HandleIds)

HandlesAt(a) == LET RECURSIVE Sum(_)
                    Sum(S) == IF S = {} THEN 0
                              ELSE LET x == CHOOSE y \in S : TRUE
                                   IN handles[<<a, x>>] + Sum(S \ {x})
                IN Sum(Contents)

HandlesOf(c) == LET RECURSIVE Sum(_)
                    Sum(S) == IF S = {} THEN 0
                              ELSE LET x == CHOOSE y \in S : TRUE
                                   IN handles[<<x, c>>] + Sum(S \ {x})
                IN Sum(Addrs)

\* The threads inside get or new: each may still hand out one handle.
Creating == {t \in Threads : pc[t] \in {"get_locked", "new_locked", "new_alloc"}}

AddHandle(a, c) == [handles EXCEPT ![<<a, c>>] = @ + 1]
DelHandle(a, c) == [handles EXCEPT ![<<a, c>>] = @ - 1]

\* ---- SymbolMap::new ----
\* Option::None of a value, of a position, and of the index (map: None).
NoValue == 0
NoPos == 0
NoMap == [present |-> FALSE, tbl |-> {}]
\* No map operation has run yet.
NoOp == [op |-> "new", key |-> Empty, val |-> NoValue, index |-> 0, ret |-> NoValue,
         found |-> FALSE, panic |-> FALSE, retkey |-> Empty]

\* SymbolMap::new(): no items, no index.
MapNew ==
    /\ items = <<>>
    /\ map = NoMap
    /\ last = NoOp
    /\ ops = 0

\* ---- the state after lazy_static has built SYMBOLS ----
Init ==
    /\ heap = SymbolPtrAlloc([a \in Addrs |-> FreeBlock], EmptyAddr, Empty, TRUE)
    /\ symbols = {EmptyAddr}
    /\ lock = NoThread
    /\ pc = [t \in Threads |-> "idle"]
    /\ arg = [t \in Threads |-> Empty]
    /\ ptr = [t \in Threads |-> Null]
    /\ handles = [x \in HandleIds |-> 0]
    /\ dying = {}
    /\ replaced = FALSE
    /\ MapNew

\* ---- Symbol::get ----
\* SYMBOLS.lock() and symbols.get(value): a call that waits for the lock is a
\* call that has not begun, so the call and the lock are one step.
GetLock(t, v) ==
    /\ pc[t] = "idle"
    /\ lock = NoThread
    /\ LiveCount < MaxHandles
    /\ lock' = t
    /\ arg' = [arg EXCEPT ![t] = v]
    /\ ptr' = [ptr EXCEPT ![t] = Lookup(heap, symbols, v)]
    /\ pc' = [pc EXCEPT ![t] = "get_locked"]
    /\ UNCHANGED <<heap, symbols, handles, dying>>

\* Mutant of GetFetchAdd: the guard is leaked, the lock stays taken.
GetFetchAddKeepsLock(t) ==
    /\ pc[t] = "get_locked"
    /\ IF ptr[t] # Null
       THEN /\ heap' = [heap EXCEPT ![ptr[t]].ref_count = @ + 1]
            /\ handles' = IF heap[ptr[t]].ref_count # 0
                          THEN [handles EXCEPT ![<<ptr[t], arg[t]>>] = @ + 1] ELSE handles
       ELSE UNCHANGED <<heap, handles>>
    /\ pc' = [pc EXCEPT ![t] = "idle"]
    /\ arg' = [arg EXCEPT ![t] = Empty]
    /\ ptr' = [ptr EXCEPT ![t] = Null]
    /\ UNCHANGED <<symbols, dying, lock>>

GetFetchAdd(t) ==
    /\ pc[t] = "get_locked"
    /\ IF ptr[t] # Null
       THEN /\ heap' = FetchAdd(heap, ptr[t])
            /\ handles' = IF Positive(heap[ptr[t]].ref_count)
                          THEN AddHandle(ptr[t], arg[t]) ELSE handles
       ELSE UNCHANGED <<heap, handles>>
    /\ lock' = NoThread
    /\ pc' = [pc EXCEPT ![t] = "idle"]
    /\ arg' = [arg EXCEPT ![t] = Empty]
    /\ ptr' = [ptr EXCEPT ![t] = Null]
    /\ UNCHANGED <<symbols, dying>>

\* ---- Symbol::new ----
NewLock(t, v) ==
    /\ pc[t] = "idle"
    /\ lock = NoThread
    /\ LiveCount < MaxHandles
    /\ \E p \in Addrs : ~heap[p].alloc
    /\ lock' = t
    /\ arg' = [arg EXCEPT ![t] = v]
    /\ LET s == Lookup(heap, symbols, v)
       IN /\ ptr' = [ptr EXCEPT ![t] = s]
          /\ pc' = [pc EXCEPT ![t] = IF s # Null THEN "new_locked" ELSE "new_alloc"]
    /\ UNCHANGED <<heap, symbols, handles, dying>>

\* Mutant of NewFetchAdd: the test of the prior count is inverted.
NewFetchAddInverted(t) ==
    /\ pc[t] = "new_locked"
    /\ heap' = [heap EXCEPT ![ptr[t]].ref_count = @ + 1]
    /\ IF heap[ptr[t]].ref_count = 0
       THEN /\ handles' = [handles EXCEPT ![<<ptr[t], arg[t]>>] = @ + 1]
            /\ lock' = NoThread
            /\ pc' = [pc EXCEPT ![t] = "idle"]
            /\ arg' = [arg EXCEPT ![t] = Empty]
            /\ ptr' = [ptr EXCEPT ![t] = Null]
       ELSE /\ pc' = [pc EXCEPT ![t] = "new_alloc"]
            /\ UNCHANGED <<handles, lock, arg, ptr>>
    /\ UNCHANGED <<symbols, dying>>

NewFetchAdd(t) ==
    /\ pc[t] = "new_locked"
    /\ heap' = FetchAdd(heap, ptr[t])
    /\ IF Positive(heap[ptr[t]].ref_count)
       THEN /\ handles' = AddHandle(ptr[t], arg[t])
            /\ lock' = NoThread
            /\ pc' = [pc EXCEPT ![t] = "idle"]
            /\ arg' = [arg EXCEPT ![t] = Empty]
            /\ ptr' = [ptr EXCEPT ![t] = Null]
       ELSE /\ pc' = [pc EXCEPT ![t] = "new_alloc"]
            /\ UNCHANGED <<handles, lock, arg, ptr>>
    /\ UNCHANGED <<symbols, dying>>

NewAlloc(t) ==
    /\ pc[t] = "new_alloc"
    /\ \E p \in Addrs :
          /\ ~heap[p].alloc
          /\ LET h == SymbolPtrAlloc(heap, p, arg[t], FALSE)
             IN /\ heap' = h
                /\ symbols' = Replace(h, symbols, p)
          /\ handles' = AddHandle(p, arg[t])
    /\ lock' = NoThread
    /\ pc' = [pc EXCEPT ![t] = "idle"]
    /\ arg' = [arg EXCEPT ![t] = Empty]
    /\ ptr' = [ptr EXCEPT ![t] = Null]
    /\ UNCHANGED dying

\* ---- Clone for Symbol ----
Clone(t, a, c) ==
    /\ pc[t] = "idle"
    /\ handles[<<a, c>>] > 0
    /\ LiveCount + Cardinality(Creating) < MaxHandles
    /\ heap' = FetchAdd(heap, a)
    /\ handles' = AddHandle(a, c)
    /\ UNCHANGED <<symbols, lock, pc, arg, ptr, dying>>

\* ---- Drop for Symbol: the fetch_sub, then destroy when it read one ----
Drop(t, a, c) ==
    /\ pc[t] = "idle"
    /\ handles[<<a, c>>] > 0
    /\ handles' = DelHandle(a, c)
    /\ heap' = FetchSub(heap, a)
    /\ \E prior \in (IF heap[a].alloc THEN {heap[a].ref_count} ELSE {1, 2}) :
          IF prior # 1
          THEN UNCHANGED <<pc, ptr, dying>>
          ELSE /\ pc' = [pc EXCEPT ![t] = "destroy"]
               /\ ptr' = [ptr EXCEPT ![t] = a]
               /\ dying' = IF heap[a].alloc THEN dying \cup {a} ELSE dying
    /\ UNCHANGED <<symbols, lock, arg>>

\* Mutant of Destroy: the block is deallocated only when it was the registry's.
DestroyLeaksOrphan(t) ==
    /\ pc[t] = "destroy"
    /\ lock = NoThread
    /\ LET mine == heap[ptr[t]].alloc /\ ptr[t] \in symbols
       IN /\ symbols' = symbols \ {ptr[t]}
          /\ heap' = IF mine THEN [heap EXCEPT ![ptr[t]] = FreeBlock] ELSE heap
    /\ dying' = dying \ {ptr[t]}
    /\ pc' = [pc EXCEPT ![t] = "idle"]
    /\ ptr' = [ptr EXCEPT ![t] = Null]
    /\ UNCHANGED <<lock, arg, handles>>

\* Mutant of Destroy: the registry's entry of the content is removed, whichever
\* allocation it points to.
DestroyRemovesByContent(t) ==
    /\ pc[t] = "destroy"
    /\ lock = NoThread
    /\ \E value \in (IF heap[ptr[t]].alloc THEN {AsRef(heap, ptr[t])} ELSE Contents) :
          symbols' = Remove(heap, symbols, value)
    /\ heap' = SymbolPtrDestroy(heap, ptr[t])
    /\ dying' = dying \ {ptr[t]}
    /\ pc' = [pc EXCEPT ![t] = "idle"]
    /\ ptr' = [ptr EXCEPT ![t] = Null]
    /\ UNCHANGED <<lock, arg, handles>>

\* Symbol::destroy, all of it under the lock.
Destroy(t) ==
    /\ pc[t] = "destroy"
    /\ lock = NoThread
    /\ \E value \in (IF heap[ptr[t]].alloc THEN {AsRef(heap, ptr[t])} ELSE Contents) :
          symbols' = IF Lookup(heap, symbols, value) = ptr[t]
                     THEN Remove(heap, symbols, value) ELSE symbols
    /\ heap' = SymbolPtrDestroy(heap, ptr[t])
    /\ dying' = dying \ {ptr[t]}
    /\ pc' = [pc EXCEPT ![t] = "idle"]
    /\ ptr' = [ptr EXCEPT ![t] = Null]
    /\ UNCHANGED <<lock, arg, handles>>

\* Every interleaving of new, get, clone and drop.
Next ==
    \/ \E t \in Threads, v \in Contents : GetLock(t, v) /\ UNCHANGED <<replaced, mapVars>>
    \/ \E t \in Threads : GetFetchAdd(t) /\ UNCHANGED <<replaced, mapVars>>
    \/ \E t \in Threads, v \in Contents : NewLock(t, v) /\ UNCHANGED <<replaced, mapVars>>
    \/ \E t \in Threads : NewFetchAdd(t) /\ UNCHANGED <<replaced, mapVars>>
    \/ \E t \in Threads : NewAlloc(t) /\ UNCHANGED <<replaced, mapVars>>
    \/ \E t \in Threads, a \in Addrs, c \in Contents : Clone(t, a, c) /\ UNCHANGED <<replaced, mapVars>>
    \/ \E t \in Threads, a \in Addrs, c \in Contents : Drop(t, a, c) /\ UNCHANGED <<replaced, mapVars>>
    \/ \E t \in Threads : Destroy(t) /\ UNCHANGED <<replaced, mapVars>>

Spec == Init /\ [][Next]_vars

\* Threads that only intern, clone and drop (no Symbol::get); `replaced` records
\* that a new() met an entry whose count was zero and allocated in its place.
NextIntern ==
    \/ \E t \in Threads, v \in Contents : NewLock(t, v) /\ UNCHANGED <<replaced, mapVars>>
    \/ \E t \in Threads : NewFetchAdd(t) /\ replaced' = (replaced \/ pc'[t] = "new_alloc")
                                          /\ UNCHANGED mapVars
    \/ \E t \in Threads : NewAlloc(t) /\ UNCHANGED <<replaced, mapVars>>
    \/ \E t \in Threads, a \in Addrs, c \in Contents : Clone(t, a, c) /\ UNCHANGED <<replaced, mapVars>>
    \/ \E t \in Threads, a \in Addrs, c \in Contents : Drop(t, a, c) /\ UNCHANGED <<replaced, mapVars>>
    \/ \E t \in Threads : Destroy(t) /\ UNCHANGED <<replaced, mapVars>>

SpecIntern == Init /\ [][NextIntern]_vars

\* Scheduling: a thread that holds the lock keeps running (weak fairness of its
\* locked steps), and parking_lot's mutex is eventually fair, so a thread that
\* waits for the lock in destroy gets it (strong fairness of the acquisition).
Locked(t) == (GetFetchAdd(t) \/ NewFetchAdd(t) \/ NewAlloc(t)) /\ UNCHANGED <<replaced, mapVars>>

Fairness == \A t \in Threads : WF_vars(Locked(t)) /\ SF_vars(Destroy(t) /\ UNCHANGED <<replaced, mapVars>>)

\* The values the fairly scheduled threads intern and look up.
FairContents == {Empty, "a"}

NextFair ==
    \/ \E t \in Threads, v \in FairContents : GetLock(t, v) /\ UNCHANGED <<replaced, mapVars>>
    \/ \E t \in Threads : GetFetchAdd(t) /\ UNCHANGED <<replaced, mapVars>>
    \/ \E t \in Threads, v \in FairContents : NewLock(t, v) /\ UNCHANGED <<replaced, mapVars>>
    \/ \E t \in Threads : NewFetchAdd(t) /\ UNCHANGED <<replaced, mapVars>>
    \/ \E t \in Threads : NewAlloc(t) /\ UNCHANGED <<replaced, mapVars>>
    \/ \E t \in Threads, a \in Addrs, c \in FairContents : Clone(t, a, c) /\ UNCHANGED <<replaced, mapVars>>
    \/ \E t \in Threads, a \in Addrs, c \in FairContents : Drop(t, a, c) /\ UNCHANGED <<replaced, mapVars>>
    \/ \E t \in Threads : Destroy(t) /\ UNCHANGED <<replaced, mapVars>>

SpecFair == Init /\ [][NextFair]_vars /\ Fairness

\* ======== SymbolMap (src/src/map.rs), owned and used by one thread ========

\* map.rs:10.
SMALL_MAP_SIZE == 8
\* Map operations run after the map was filled.
MaxOps == 2

\* The keys the map is filled with, in the order they are inserted; a content
\* that is never interned; the values stored.
MapKeys == <<"a", "b", "c", "d", "e", "f", "g", "h", "i", "j">>
Absent == "z"
MapContents == {Empty, Absent} \cup {MapKeys[i] : i \in DOMAIN MapKeys}
MapAddrs == 1..(Len(MapKeys) + 2)
Values == {1, 2}

\* ---- the pool as one thread sees it: each call runs to its end ----

PoolOf(h, s) == [heap |-> h, symbols |-> s]

\* Global.alloc: which free block it returns cannot be observed without a
\* dangling handle, so the lowest one stands for any.
LeastFree(h) ==
    CHOOSE a \in DOMAIN h : ~h[a].alloc /\ \A b \in DOMAIN h : ~h[b].alloc => a <= b

\* Symbol::get(value).
SymbolGet(P, v) ==
    LET s == Lookup(P.heap, P.symbols, v)
    IN IF s = Null
       THEN [pool |-> P, sym |-> Null]
       ELSE [pool |-> PoolOf(FetchAdd(P.heap, s), P.symbols),
             sym |-> IF Positive(P.heap[s].ref_count) THEN s ELSE Null]

\* Symbol::new(value).
SymbolNew(P, v) ==
    LET s == Lookup(P.heap, P.symbols, v)
        found == s # Null /\ Positive(P.heap[s].ref_count)
        h1 == IF s # Null THEN FetchAdd(P.heap, s) ELSE P.heap
        p == LeastFree(h1)
        h2 == SymbolPtrAlloc(h1, p, v, FALSE)
    IN IF found
       THEN [pool |-> PoolOf(h1, P.symbols), sym |-> s]
       ELSE [pool |-> PoolOf(h2, Replace(h2, P.symbols, p)), sym |-> p]

\* Symbol::clone.
SymbolClone(P, a) == PoolOf(FetchAdd(P.heap, a), P.symbols)

\* Symbol::destroy.
SymbolDestroy(P, a) ==
    LET value == AsRef(P.heap, a)
    IN PoolOf(SymbolPtrDestroy(P.heap, a),
              IF Lookup(P.heap, P.symbols, value) = a
              THEN Remove(P.heap, P.symbols, value) ELSE P.symbols)

\* Drop for Symbol.
SymbolDrop(P, a) ==
    LET Q == PoolOf(FetchSub(P.heap, a), P.symbols)
    IN IF P.heap[a].ref_count # 1 THEN Q ELSE SymbolDestroy(Q, a)

\* Dropping the Symbols of a sequence of addresses, first to last.
RECURSIVE DropSeq(_, _)
DropSeq(P, as) ==
    IF as = <<>> THEN P ELSE DropSeq(SymbolDrop(P, Head(as)), Tail(as))

\* ---- Hash for str and for Symbol, and the Hasher they write to ----

KeyIndex(c) == CHOOSE i \in DOMAIN MapKeys : MapKeys[i] = c

\* The UTF-8 bytes of a content.
Bytes(c) ==
    IF c = Empty THEN <<>>
    ELSE IF c = Absent THEN <<122>>
    ELSE <<96 + KeyIndex(c)>>

\* <str as Hash>::hash: the bytes, then 0xff.
StrHash(state, s) == (state \o Bytes(s)) \o <<255>>

\* Mutant of SymbolHash: the handle's address is hashed, not its content.
SymbolHashByAddress(state, h, a) == state \o <<a>>

\* <Symbol as Hash>::hash: self.as_ref().hash(state).
SymbolHash(state, h, a) == StrHash(state, AsRef(h, a))

\* Hasher::finish: a small hash of the bytes written, so that keys collide.
RECURSIVE Finish(_)
Finish(state) ==
    IF state = <<>> THEN 0
    ELSE (Finish(SubSeq(state, 1, Len(state) - 1)) * 31 + state[Len(state)]) % 8

HashOfStr(s) == Finish(StrHash(<<>>, s))
HashOfSymbol(h, a) == Finish(SymbolHash(<<>>, h, a))

\* ---- PartialEq and Ord for Symbol ----

\* <[u8] as Ord>::cmp: the first differing byte decides, then the length.
RECURSIVE StrCmp(_, _)
StrCmp(x, y) ==
    IF x = <<>> /\ y = <<>> THEN "Equal"
    ELSE IF x = <<>> THEN "Less"
    ELSE IF y = <<>> THEN "Greater"
    ELSE IF Head(x) < Head(y) THEN "Less"
    ELSE IF Head(x) > Head(y) THEN "Greater"
    ELSE StrCmp(Tail(x), Tail(y))

\* Symbol::eq: the addresses are compared.
SymbolEq(a, b) == a = b

\* What self.as_ref() can read at address a: the content of the block, or
\* anything when the block is freed.
Reads(h, a) == IF h[a].alloc THEN {AsRef(h, a)} ELSE Contents

\* Symbol::cmp: Equal when eq, else the comparison of the two contents; the
\* set of the results the call can have.
SymbolCmp(h, a, b) ==
    IF SymbolEq(a, b) THEN {"Equal"}
    ELSE {StrCmp(Bytes(ca), Bytes(cb)) : ca \in Reads(h, a), cb \in Reads(h, b)}

\* ---- HashMap<Symbol, usize>: entries [hash, key, pos]; keys equal by address ----

TblFind(h, tbl, s) == {e \in tbl : e.hash = HashOfSymbol(h, s) /\ e.key = s}

\* Mutant of TblGet: an entry of equal hash is taken for the key, no key compared.
TblGetByHash(h, tbl, s) ==
    LET same == {e \in tbl : e.hash = HashOfSymbol(h, s)}
    IN IF same = {} THEN NoPos
       ELSE (CHOOSE e \in same : \A f \in same : e.pos <= f.pos).pos

\* HashMap::get(&Symbol).
TblGet(h, tbl, s) ==
    IF TblFind(h, tbl, s) = {} THEN NoPos
    ELSE (CHOOSE e \in TblFind(h, tbl, s) : TRUE).pos

\* HashMap::contains_key(&str): the key is borrowed as str and compared by content.
TblContainsStr(h, tbl, q) ==
    \E e \in tbl : e.hash = HashOfStr(q) /\ AsRef(h, e.key) = q

\* HashMap::insert(key, pos): an equal key keeps its place and takes the new pos.
TblInsert(h, tbl, k, pos) ==
    (tbl \ TblFind(h, tbl, k)) \cup {[hash |-> HashOfSymbol(h, k), key |-> k, pos |-> pos]}

\* The keys of a table, as a sequence (the order HashMap drops them in is free).
RECURSIVE SeqOfSet(_)
SeqOfSet(S) ==
    IF S = {} THEN <<>>
    ELSE LET x == CHOOSE y \in S : \A z \in S : y <= z
         IN <<x>> \o SeqOfSet(S \ {x})

TblKeys(tbl) == SeqOfSet({e.key : e \in tbl})

\* ---- SymbolMap: the operations on W = [pool, items, map] ----
\* Positions are counted from 1 here and from 0 in the code: the pair the code
\* calls items[i] is items[i + 1], and the index holds i + 1 for it.

WorldOf(P, it, m) == [pool |-> P, items |-> it, map |-> m]
Pair(k, v) == [key |-> k, val |-> v]
Returns(W, r) == [w |-> W, ret |-> r, panic |-> FALSE]
Panics(W) == [w |-> W, ret |-> NoValue, panic |-> TRUE]

\* Mutant of VecRemove: Vec::swap_remove, the last element fills the hole.
VecSwapRemove(s, pos) ==
    IF pos = Len(s) THEN SubSeq(s, 1, Len(s) - 1)
    ELSE SubSeq([s EXCEPT ![pos] = s[Len(s)]], 1, Len(s) - 1)

\* Vec::remove(pos) and Vec::insert(pos, e) on a position in range.
VecRemove(s, pos) == SubSeq(s, 1, pos - 1) \o SubSeq(s, pos + 1, Len(s))
VecInsert(s, pos, e) == SubSeq(s, 1, pos - 1) \o <<e>> \o SubSeq(s, pos, Len(s))

\* SymbolMap::iter: the pairs first to last, each key read as its content.
Iter(it, h) == [i \in DOMAIN it |-> <<AsRef(h, it[i].key), it[i].val>>]

\* The keys of items, first to last.
KeysOf(it) == [i \in DOMAIN it |-> it[i].key]

\* iter().position(|(k, _)| s == *k): the first position holding s, by address.
Position(it, s) ==
    IF \E i \in DOMAIN it : it[i].key = s
    THEN CHOOSE i \in DOMAIN it : it[i].key = s /\ \A j \in 1..(i - 1) : it[j].key # s
    ELSE NoPos

\* The loop of rebuild_map: m.insert(e.0.clone(), i) for every pair.
RECURSIVE TblFill(_, _, _, _)
TblFill(P, tbl, it, i) ==
    IF i > Len(it) THEN [pool |-> P, tbl |-> tbl]
    ELSE LET k == it[i].key
             P1 == SymbolClone(P, k)
             P2 == IF TblFind(P1.heap, tbl, k) # {} THEN SymbolDrop(P1, k) ELSE P1
         IN TblFill(P2, TblInsert(P2.heap, tbl, k, i), it, i + 1)

\* Mutant of RebuildMap: the index is kept as it was when it exists.
RebuildMapKeepsStale(W) ==
    IF W.map.present THEN W
    ELSE IF Len(W.items) <= SMALL_MAP_SIZE THEN W
    ELSE LET f == TblFill(W.pool, {}, W.items, 1)
         IN WorldOf(f.pool, W.items, [present |-> TRUE, tbl |-> f.tbl])

\* SymbolMap::rebuild_map.
RebuildMap(W) ==
    LET cleared == DropSeq(W.pool, TblKeys(W.map.tbl))
    IN IF Len(W.items) <= SMALL_MAP_SIZE
       THEN WorldOf(cleared, W.items, NoMap)
       ELSE LET f == TblFill(cleared, {}, W.items, 1)
            IN WorldOf(f.pool, W.items, [present |-> TRUE, tbl |-> f.tbl])

\* SymbolMap::with_capacity(capacity): an empty map; the index is made when
\* capacity > SMALL_MAP_SIZE.
WithCapacity(capacity) ==
    [items |-> <<>>,
     map |-> IF capacity > SMALL_MAP_SIZE THEN [present |-> TRUE, tbl |-> {}] ELSE NoMap]

\* Mutant of MapInsert: the key is never looked up, the pair is always appended.
MapInsertAppends(W, k, v) ==
    Returns(RebuildMap(WorldOf(W.pool, Append(W.items, Pair(k, v)), W.map)), NoValue)

\* SymbolMap::insert(k, v); the call owns the handle k.
MapInsert(W, k, v) ==
    IF W.map.present
    THEN LET P1 == SymbolClone(W.pool, k)
             i == TblGet(P1.heap, W.map.tbl, k)
         IN IF i = NoPos
            THEN Returns(WorldOf(P1, Append(W.items, Pair(k, v)),
                                 [present |-> TRUE,
                                  tbl |-> TblInsert(P1.heap, W.map.tbl, k, Len(W.items) + 1)]),
                         NoValue)
            ELSE Returns(WorldOf(SymbolDrop(SymbolDrop(P1, k), k),
                                 [W.items EXCEPT ![i].val = v], W.map),
                         W.items[i].val)
    ELSE LET i == Position(W.items, k)
         IN IF i # NoPos
            THEN Returns(WorldOf(SymbolDrop(W.pool, k), [W.items EXCEPT ![i].val = v], W.map),
                         W.items[i].val)
            ELSE Returns(RebuildMap(WorldOf(W.pool, Append(W.items, Pair(k, v)), W.map)),
                         NoValue)

\* Mutant of MapRemove: the value of k is returned and its pair is left in place.
MapRemoveLeavesPair(W, q) ==
    LET g == SymbolGet(W.pool, q)
        s == g.sym
        i == IF W.map.present THEN TblGet(g.pool.heap, W.map.tbl, s)
             ELSE Position(W.items, s)
    IN IF s = Null THEN Returns(WorldOf(g.pool, W.items, W.map), NoValue)
       ELSE Returns(WorldOf(SymbolDrop(g.pool, s), W.items, W.map),
                    IF i = NoPos THEN NoValue ELSE W.items[i].val)

\* SymbolMap::remove(k), k a content.
MapRemove(W, q) ==
    LET g == SymbolGet(W.pool, q)
        s == g.sym
        i == IF W.map.present THEN TblGet(g.pool.heap, W.map.tbl, s)
             ELSE Position(W.items, s)
        removed == WorldOf(g.pool, VecRemove(W.items, i), W.map)
        W1 == IF W.map.present THEN RebuildMap(removed) ELSE removed
    IN IF s = Null THEN Returns(WorldOf(g.pool, W.items, W.map), NoValue)
       ELSE IF i = NoPos
            THEN Returns(WorldOf(SymbolDrop(g.pool, s), W.items, W.map), NoValue)
            ELSE Returns(WorldOf(SymbolDrop(SymbolDrop(W1.pool, W.items[i].key), s),
                                 W1.items, W1.map),
                         W.items[i].val)

\* SymbolMap::remove_at(index): Vec::remove panics when index >= len.
MapRemoveAt(W, index) ==
    IF index >= Len(W.items) THEN Panics(W)
    ELSE LET W1 == RebuildMap(WorldOf(W.pool, VecRemove(W.items, index + 1), W.map))
         IN Returns(WorldOf(SymbolDrop(W1.pool, W.items[index + 1].key), W1.items, W1.map),
                    W.items[index + 1].val)

\* Mutant of MapInsertAt: the pair is put in without k being removed first.
MapInsertAtKeepsOld(W, index, k, v) ==
    IF index > Len(W.items)
    THEN Panics(WorldOf(SymbolDrop(W.pool, k), W.items, W.map))
    ELSE Returns(RebuildMap(WorldOf(W.pool, VecInsert(W.items, index + 1, Pair(k, v)),
                                    W.map)),
                 NoValue)

\* SymbolMap::insert_at(index, k, v): remove(&k), then Vec::insert, which
\* panics when index > len; the unwinding drops k.
MapInsertAt(W, index, k, v) ==
    LET old == MapRemove(W, AsRef(W.pool.heap, k))
        W1 == old.w
    IN IF index > Len(W1.items)
       THEN Panics(WorldOf(SymbolDrop(W1.pool, k), W1.items, W1.map))
       ELSE Returns(RebuildMap(WorldOf(W1.pool, VecInsert(W1.items, index + 1, Pair(k, v)),
                                       W1.map)),
                    old.ret)

\* SymbolMap::pop_front: self.items.pop(); the pair goes to the caller.
MapPopFront(W) ==
    IF W.items = <<>> THEN [w |-> W, pair |-> Pair(Null, NoValue)]
    ELSE [w |-> RebuildMap(WorldOf(W.pool, SubSeq(W.items, 1, Len(W.items) - 1), W.map)),
          pair |-> W.items[Len(W.items)]]

\* SymbolMap::pop_back: self.items.remove(len - 1); the pair goes to the caller.
MapPopBack(W) ==
    IF W.items = <<>> THEN [w |-> W, pair |-> Pair(Null, NoValue)]
    ELSE [w |-> RebuildMap(WorldOf(W.pool, VecRemove(W.items, Len(W.items)), W.map)),
          pair |-> W.items[Len(W.items)]]

\* SymbolMap::clear: the pairs are dropped, then the index.
MapClear(W) ==
    WorldOf(DropSeq(DropSeq(W.pool, KeysOf(W.items)), TblKeys(W.map.tbl)), <<>>, NoMap)

\* Mutant of MapGet: the Symbol that Symbol::get returned is never dropped.
MapGetKeepsHandle(W, q) ==
    LET g == SymbolGet(W.pool, q)
        s == g.sym
        i == IF W.map.present THEN TblGet(g.pool.heap, W.map.tbl, s)
             ELSE Position(W.items, s)
    IN Returns(WorldOf(g.pool, W.items, W.map),
               IF s = Null \/ i = NoPos THEN NoValue ELSE W.items[i].val)

\* SymbolMap::get(k), k a content.
MapGet(W, q) ==
    LET g == SymbolGet(W.pool, q)
        s == g.sym
        i == IF W.map.present THEN TblGet(g.pool.heap, W.map.tbl, s)
             ELSE Position(W.items, s)
    IN IF s = Null THEN Returns(WorldOf(g.pool, W.items, W.map), NoValue)
       ELSE Returns(WorldOf(SymbolDrop(g.pool, s), W.items, W.map),
                    IF i = NoPos THEN NoValue ELSE W.items[i].val)

\* SymbolMap::contains_key(k), k a content.
MapContainsKey(W, q) ==
    LET g == SymbolGet(W.pool, q)
        s == g.sym
    IN IF s = Null THEN [w |-> WorldOf(g.pool, W.items, W.map), found |-> FALSE]
       ELSE [w |-> WorldOf(SymbolDrop(g.pool, s), W.items, W.map),
             found |-> IF W.map.present THEN TblContainsStr(g.pool.heap, W.map.tbl, q)
                       ELSE Position(W.items, s) # NoPos]

\* ---- the thread that owns the map ----

\* The contents the owner passes to the operations it runs after the fill: an
\* interior key, the ninth and the tenth key (the tenth collides with the
\* interior key in the index) and a content never interned; the keys it inserts
\* at a position and the ones it keeps a Symbol of; the positions it passes.
OpKeys == {MapKeys[2], MapKeys[SMALL_MAP_SIZE + 1], MapKeys[SMALL_MAP_SIZE + 2], Absent}
InsertKeys == OpKeys \ {Absent}
AtKeys == {MapKeys[2], MapKeys[SMALL_MAP_SIZE + 2]}
HeldKeys == {MapKeys[2], Empty}
InsertIndexes == {0, 1, Len(items), Len(items) + 1}
RemoveIndexes == {0, 1, Len(items) - 1, Len(items)} \ {-1}
Capacities == {SMALL_MAP_SIZE, SMALL_MAP_SIZE + 1}

World == WorldOf(PoolOf(heap, symbols), items, map)

SetWorld(W) ==
    /\ heap' = W.pool.heap
    /\ symbols' = W.pool.symbols
    /\ items' = W.items
    /\ map' = W.map

Did(name, c, v, index, r, f, p, rk) ==
    [op |-> name, key |-> c, val |-> v, index |-> index, ret |-> r, found |-> f,
     panic |-> p, retkey |-> rk]

PoolIdle == UNCHANGED <<lock, pc, arg, ptr, dying, replaced>>

InitMap ==
    /\ heap = SymbolPtrAlloc([a \in MapAddrs |-> FreeBlock], EmptyAddr, Empty, TRUE)
    /\ symbols = {EmptyAddr}
    /\ lock = NoThread
    /\ pc = [t \in Threads |-> "idle"]
    /\ arg = [t \in Threads |-> Empty]
    /\ ptr = [t \in Threads |-> Null]
    /\ handles = [x \in MapAddrs \X HeldKeys |-> 0]
    /\ dying = {}
    /\ replaced = FALSE
    /\ MapNew

\* let mut m = SymbolMap::with_capacity(capacity), in place of SymbolMap::new().
NewWithCapacity(capacity) ==
    /\ last.op = "new"
    /\ items' = WithCapacity(capacity).items
    /\ map' = WithCapacity(capacity).map
    /\ last' = Did("with_capacity", Empty, NoValue, capacity, NoValue, FALSE, FALSE, Empty)
    /\ UNCHANGED <<heap, symbols, handles, ops>>
    /\ PoolIdle

\* m.insert(c.into(), v).
InsertCall(c, v) ==
    LET k == SymbolNew(PoolOf(heap, symbols), c)
        r == MapInsert(WorldOf(k.pool, items, map), k.sym, v)
    IN /\ SetWorld(r.w)
       /\ last' = Did("insert", c, v, 0, r.ret, FALSE, r.panic, Empty)
       /\ UNCHANGED handles
       /\ PoolIdle

\* The fill: the keys of MapKeys are inserted in their order, each with value 1.
Fill ==
    /\ ops = 0
    /\ Len(items) < Len(MapKeys)
    /\ InsertCall(MapKeys[Len(items) + 1], 1)
    /\ UNCHANGED ops

Insert(c, v) ==
    /\ ops < MaxOps
    /\ InsertCall(c, v)
    /\ ops' = ops + 1

\* m.insert_at(index, c.into(), v).
InsertAt(index, c, v) ==
    /\ ops < MaxOps
    /\ LET k == SymbolNew(PoolOf(heap, symbols), c)
           r == MapInsertAt(WorldOf(k.pool, items, map), index, k.sym, v)
       IN /\ SetWorld(r.w)
          /\ last' = Did("insert_at", c, v, index, r.ret, FALSE, r.panic, Empty)
    /\ ops' = ops + 1
    /\ UNCHANGED handles
    /\ PoolIdle

\* m.remove(c).
RemoveKey(c) ==
    /\ ops < MaxOps
    /\ LET r == MapRemove(World, c)
       IN /\ SetWorld(r.w)
          /\ last' = Did("remove", c, NoValue, 0, r.ret, FALSE, r.panic, Empty)
    /\ ops' = ops + 1
    /\ UNCHANGED handles
    /\ PoolIdle

\* m.remove_at(index).
RemoveAt(index) ==
    /\ ops < MaxOps
    /\ LET r == MapRemoveAt(World, index)
       IN /\ SetWorld(r.w)
          /\ last' = Did("remove_at", Empty, NoValue, index, r.ret, FALSE, r.panic, Empty)
    /\ ops' = ops + 1
    /\ UNCHANGED handles
    /\ PoolIdle

\* m.pop_front(); the pair returned is dropped by the caller.
PopFront ==
    /\ ops < MaxOps
    /\ LET r == MapPopFront(World)
           k == r.pair.key
       IN /\ SetWorld(IF k = Null THEN r.w
                      ELSE WorldOf(SymbolDrop(r.w.pool, k), r.w.items, r.w.map))
          /\ last' = Did("pop_front", Empty, NoValue, 0, r.pair.val, k # Null, FALSE,
                         IF k = Null THEN Empty ELSE AsRef(heap, k))
    /\ ops' = ops + 1
    /\ UNCHANGED handles
    /\ PoolIdle

\* m.pop_back(); the pair returned is dropped by the caller.
PopBack ==
    /\ ops < MaxOps
    /\ LET r == MapPopBack(World)
           k == r.pair.key
       IN /\ SetWorld(IF k = Null THEN r.w
                      ELSE WorldOf(SymbolDrop(r.w.pool, k), r.w.items, r.w.map))
          /\ last' = Did("pop_back", Empty, NoValue, 0, r.pair.val, k # Null, FALSE,
                         IF k = Null THEN Empty ELSE AsRef(heap, k))
    /\ ops' = ops + 1
    /\ UNCHANGED handles
    /\ PoolIdle

\* m.clear().
Clear ==
    /\ ops < MaxOps
    /\ SetWorld(MapClear(World))
    /\ last' = Did("clear", Empty, NoValue, 0, NoValue, FALSE, FALSE, Empty)
    /\ ops' = ops + 1
    /\ UNCHANGED handles
    /\ PoolIdle

\* m.get(c).
Get(c) ==
    /\ ops < MaxOps
    /\ LET r == MapGet(World, c)
       IN /\ SetWorld(r.w)
          /\ last' = Did("get", c, NoValue, 0, r.ret, r.ret # NoValue, r.panic, Empty)
    /\ ops' = ops + 1
    /\ UNCHANGED handles
    /\ PoolIdle

\* m.contains_key(c).
ContainsKey(c) ==
    /\ ops < MaxOps
    /\ LET r == MapContainsKey(World, c)
       IN /\ SetWorld(r.w)
          /\ last' = Did("contains_key", c, NoValue, 0, NoValue, r.found, FALSE, Empty)
    /\ ops' = ops + 1
    /\ UNCHANGED handles
    /\ PoolIdle

\* let s = Symbol::new(c), kept by the owner outside the map.
Hold(c) ==
    /\ ops < MaxOps
    /\ LET k == SymbolNew(PoolOf(heap, symbols), c)
       IN /\ heap' = k.pool.heap
          /\ symbols' = k.pool.symbols
          /\ handles' = [handles EXCEPT ![<<k.sym, c>>] = @ + 1]
    /\ last' = Did("hold", c, NoValue, 0, NoValue, FALSE, FALSE, Empty)
    /\ ops' = ops + 1
    /\ UNCHANGED <<items, map>>
    /\ PoolIdle

\* drop(s) of a Symbol the owner kept.
Release(a, c) ==
    /\ ops < MaxOps
    /\ handles[<<a, c>>] > 0
    /\ LET P == SymbolDrop(PoolOf(heap, symbols), a)
       IN /\ heap' = P.heap
          /\ symbols' = P.symbols
    /\ handles' = [handles EXCEPT ![<<a, c>>] = @ - 1]
    /\ last' = Did("release", c, NoValue, 0, NoValue, FALSE, FALSE, Empty)
    /\ ops' = ops + 1
    /\ UNCHANGED <<items, map>>
    /\ PoolIdle

NextMap ==
    \/ \E capacity \in Capacities : NewWithCapacity(capacity)
    \/ Fill
    \/ \E c \in InsertKeys, v \in Values : Insert(c, v)
    \/ \E index \in InsertIndexes, c \in AtKeys : InsertAt(index, c, 2)
    \/ \E c \in OpKeys : RemoveKey(c)
    \/ \E index \in RemoveIndexes : RemoveAt(index)
    \/ PopFront
    \/ PopBack
    \/ Clear
    \/ \E c \in OpKeys : Get(c)
    \/ \E c \in OpKeys : ContainsKey(c)
    \/ \E c \in HeldKeys : Hold(c)
    \/ \E a \in MapAddrs, c \in HeldKeys : Release(a, c)

SpecMap == InitMap /\ [][NextMap]_vars

\* ======== Serialize / Deserialize for Symbol (src/src/lib.rs) ========
\* What crosses the serde boundary is a scalar of the data model: a string, or
\* something else that String::deserialize rejects.

StrToken(text) == [kind |-> "str", text |-> text]
NotAString == [kind |-> "u64", text |-> Empty]
Tokens == {StrToken(c) : c \in Contents} \cup {NotAString}

\* Mutant of SymbolSerialize: the pointer is emitted, not the string it points to.
SymbolSerializePointer(h, a) == NotAString

\* Symbol::serialize: self.as_ref().serialize(serializer), i.e. serialize_str.
SymbolSerialize(h, a) == StrToken(AsRef(h, a))

\* String::deserialize(deserializer): the string, or the decoder's error.
StringDeserialize(tok) ==
    IF tok.kind = "str" THEN [ok |-> TRUE, text |-> tok.text]
    ELSE [ok |-> FALSE, text |-> Empty]

\* s.serialize(serializer) on a live Symbol; `last` keeps what was emitted and
\* the content the Symbol was built from.
Serialize(t, a, c) ==
    /\ pc[t] = "idle"
    /\ handles[<<a, c>>] > 0
    /\ LET tok == SymbolSerialize(heap, a)
       IN last' = Did("serialize", tok.text, NoValue, 0, NoValue, tok.kind = "str", FALSE, c)
    /\ UNCHANGED <<poolVars, replaced, items, map, ops>>

\* Symbol::deserialize: String::deserialize(..)? and then Symbol::from(String),
\* which is Symbol::new; on the decoder's error nothing else runs.
Deserialize(t, tok) ==
    LET d == StringDeserialize(tok)
    IN /\ pc[t] = "idle"
       /\ IF d.ok THEN NewLock(t, d.text) ELSE UNCHANGED poolVars
       /\ last' = Did("deserialize", d.text, NoValue, 0, NoValue, d.ok, FALSE, Empty)
       /\ UNCHANGED <<replaced, items, map, ops>>

\* Threads that serialize, deserialize, clone and drop Symbols.
NextSerde ==
    \/ \E t \in Threads, a \in Addrs, c \in Contents : Serialize(t, a, c)
    \/ \E t \in Threads, tok \in Tokens : Deserialize(t, tok)
    \/ \E t \in Threads : NewFetchAdd(t) /\ UNCHANGED <<replaced, mapVars>>
    \/ \E t \in Threads : NewAlloc(t) /\ UNCHANGED <<replaced, mapVars>>
    \/ \E t \in Threads, a \in Addrs, c \in Contents : Clone(t, a, c) /\ UNCHANGED <<replaced, mapVars>>
    \/ \E t \in Threads, a \in Addrs, c \in Contents : Drop(t, a, c) /\ UNCHANGED <<replaced, mapVars>>
    \/ \E t \in Threads : Destroy(t) /\ UNCHANGED <<replaced, mapVars>>

SpecSerde == Init /\ [][NextSerde]_vars

\* ---- the claims ----

Quiet == \A t \in Threads : pc[t] = "idle"
Live(x) == handles[x] > 0
Blocks(c) == {a \in Addrs : heap[a].alloc /\ heap[a].content = c}
GetReturns(t) == pc[t] = "get_locked" /\ pc'[t] = "idle"
GetReturnsSome(t) == GetReturns(t) /\ handles' # handles
GetReturnsNone(t) == GetReturns(t) /\ handles' = handles

\* C1: any two live handles built from equal content hold the same address.
C1_Canonicalization ==
    \A x, y \in HandleIds : (Live(x) /\ Live(y) /\ x[2] = y[2]) => x[1] = y[1]

\* C2: a get returns a handle exactly when the entry it found is resident in the
\* registry and no drop has taken its count from one to zero.
C2_GetOnlyResidentNotDying ==
    [][\A t \in Threads : GetReturns(t) =>
          (GetReturnsSome(t) <=> (ptr[t] # Null /\ ptr[t] \in symbols /\ ptr[t] \notin dying))]_vars

\* C3: every live handle points to a block that is still allocated.
C3_NoHandleToFreedEntry ==
    \A x \in HandleIds : Live(x) => heap[x[1]].alloc

\* C4: with no operation in flight, the count of every resident entry is the
\* number of live handles at its address, plus the bias for the entry of "".
C4_CountEqualsHandles ==
    Quiet => \A a \in symbols :
        heap[a].ref_count = HandlesAt(a) + (IF heap[a].content = Empty THEN PersistentCount ELSE 0)

\* C5: with no operation in flight and no live handle built from a non-empty
\* content s, no block holds s: its entry is out of the registry and freed.
C5_AllDroppedReleases ==
    Quiet => \A s \in Contents \ {Empty} :
        HandlesOf(s) = 0 => (Blocks(s) = {} /\ Lookup(heap, symbols, s) = Null)

\* C6: threads that only intern, clone and drop: once no operation is in flight
\* and no handle built from a non-empty content is left, no block holds that
\* content, in the registry or out of it.
C6_InternConverges ==
    Quiet => \A c \in Contents \ {Empty} :
        HandlesOf(c) = 0 => (Blocks(c) = {} /\ Lookup(heap, symbols, c) = Null)

\* C6 witness: all is released again after a new() replaced a dying entry.
C6_ConvergedAfterReplace ==
    Quiet /\ replaced /\ LiveCount = 0 /\ \A a \in Addrs \ {EmptyAddr} : ~heap[a].alloc

\* C7: of two distinct allocated blocks with the same content, one has had its
\* count taken from one to zero and awaits its removal.
C7_OneLiveEntryPerContent ==
    \A a, b \in Addrs :
        (a # b /\ heap[a].alloc /\ heap[b].alloc /\ heap[a].content = heap[b].content)
            => (a \in dying \/ b \in dying)

\* C7 witness: a fresh entry in the registry beside the dying one it replaced.
C7_FreshBesideDying ==
    \E a, b \in Addrs :
        /\ a # b /\ heap[a].alloc /\ heap[b].alloc /\ heap[a].content = heap[b].content
        /\ a \in dying /\ a \notin symbols /\ b \in symbols /\ b \notin dying
        /\ Live(<<b, heap[b].content>>)

\* C8: the entry of "" stays in the registry and allocated, its count is the
\* bias plus its live handles, and every handle built from "" points to it.
C8_EmptyPinned ==
    /\ EmptyAddr \in symbols
    /\ heap[EmptyAddr].alloc /\ heap[EmptyAddr].content = Empty
    /\ heap[EmptyAddr].ref_count >= PersistentCount
    /\ heap[EmptyAddr].ref_count = PersistentCount + HandlesAt(EmptyAddr)
    /\ \A a \in Addrs : Live(<<a, Empty>>) => a = EmptyAddr

\* C8 witness: a handle of "" is live and a get("") has found the pinned entry.
C8_EmptyHandleLive ==
    /\ handles[<<EmptyAddr, Empty>>] >= 1
    /\ \E t \in Threads : pc[t] = "get_locked" /\ arg[t] = Empty /\ ptr[t] = EmptyAddr

\* C9: a get that returns None leaves every block and the registry as they were.
C9_GetNoneChangesNothing ==
    [][\A t \in Threads : GetReturnsNone(t) => (heap' = heap /\ symbols' = symbols)]_vars

\* C10: under fair scheduling the lock is held exactly by a thread inside the
\* locked part of get or new, and every operation in flight completes.
C10_NoBlocking ==
    /\ [](\A t \in Threads : (lock = t) <=> (t \in Creating))
    /\ \A t \in Threads : (pc[t] # "idle") ~> (pc[t] = "idle")

\* C10 witness: a thread waits in destroy for the lock another thread holds.
C10_WaitsForLock ==
    \E t, u \in Threads : t # u /\ pc[t] = "destroy" /\ lock = u
\* ---- the claims about SymbolMap ----

IndexKeys == {e.key : e \in map.tbl}
ItemKeys == {items[i].key : i \in DOMAIN items}
Mutators == {"with_capacity", "insert", "insert_at", "remove", "remove_at", "pop_front",
             "pop_back", "clear"}

\* C11: whenever the index exists, its keys are exactly the keys of items and it
\* maps the key at every position of items to that position.
C11_IndexInSync ==
    map.present =>
        /\ IndexKeys = ItemKeys
        /\ \A i \in DOMAIN items : TblGet(heap, map.tbl, items[i].key) = i

\* C11 witness: a key was removed from a map that keeps its index afterwards.
C11_IndexedAfterRemove ==
    /\ map.present /\ Len(items) > SMALL_MAP_SIZE
    /\ last.op = "remove" /\ last.ret # NoValue

\* C12: the index is absent when items holds at most SMALL_MAP_SIZE pairs and
\* present when it holds more.
C12_ThresholdPolicy ==
    map.present <=> (Len(items) > SMALL_MAP_SIZE)

\* The positions of items whose key has content c, and the contents of the keys.
PositionsOf(c) == {i \in DOMAIN items : AsRef(heap, items[i].key) = c}
KeyContents == [i \in DOMAIN items |-> AsRef(heap, items[i].key)]

\* C13: insert(k, v) of a key of the map puts v at k's position and returns the
\* value that was there, the keys and every other value staying as they were;
\* insert of any other key appends (k, v) and returns None.
C13_InsertReplacesOrAppends ==
    [][last'.op = "insert" =>
          LET c == last'.key
              v == last'.val
          IN IF PositionsOf(c) # {}
             THEN \E i \in PositionsOf(c) :
                     /\ items' = [items EXCEPT ![i].val = v]
                     /\ last'.ret = items[i].val
             ELSE /\ Len(items') = Len(items) + 1
                  /\ SubSeq(items', 1, Len(items)) = items
                  /\ AsRef(heap', items'[Len(items')].key) = c
                  /\ items'[Len(items')].val = v
                  /\ last'.ret = NoValue]_vars

\* C13 witness: an insert of a key of an indexed map returned the old value 1
\* and left 2 in its place.
C13_ReplacedUnderIndex ==
    /\ last.op = "insert" /\ last.ret = 1 /\ last.val = 2
    /\ map.present /\ Len(items) > SMALL_MAP_SIZE
    /\ \E i \in DOMAIN items : AsRef(heap, items[i].key) = last.key /\ items[i].val = 2

\* What a linear scan of items for the content q finds: the value of the first
\* pair whose key reads q, or None.
ScanValue(it, h, q) ==
    LET at == {i \in DOMAIN it : AsRef(h, it[i].key) = q}
    IN IF at = {} THEN NoValue ELSE it[CHOOSE i \in at : \A j \in at : i <= j].val

\* get and contains_key of every content answer as a linear scan of items does,
\* and so did the one that ran last.
LookupsScan ==
    /\ \A q \in MapContents :
          /\ MapGet(World, q).ret = ScanValue(items, heap, q)
          /\ MapContainsKey(World, q).found = (ScanValue(items, heap, q) # NoValue)
    /\ last.op = "get" => last.ret = ScanValue(items, heap, last.key)
    /\ last.op = "contains_key" => last.found = (ScanValue(items, heap, last.key) # NoValue)

\* C14: in every state, with or without the index, get and contains_key of any
\* content answer as a linear scan of items does; and the insert of the ninth
\* key changes what that scan, and so every lookup, finds for no other content.
C14_LookupIsLinearScan ==
    /\ []LookupsScan
    /\ [][(last'.op = "insert" /\ Len(items) = SMALL_MAP_SIZE
               /\ Len(items') = SMALL_MAP_SIZE + 1) =>
             \A q \in MapContents \ {last'.key} :
                 ScanValue(items', heap', q) = ScanValue(items, heap, q)]_vars

\* C14 witness: with nine keys and the index built, a get found a key's value.
C14_FoundThroughIndex ==
    /\ last.op = "get" /\ last.ret # NoValue
    /\ map.present /\ Len(items) = SMALL_MAP_SIZE + 1

\* A sequence of pairs without the pairs of key c, the rest in their order.
Without(pairs, c) == LET Other(p) == p[1] # c IN SelectSeq(pairs, Other)

\* C15: after the fill's n inserts of distinct keys, iteration yields the n pairs
\* in the order they were inserted; after a remove, iteration yields the pairs
\* that were there, less the removed key's, in the order they had.
C15_IterationOrder ==
    /\ [](ops = 0 => Iter(items, heap) = [i \in 1..Len(items) |-> <<MapKeys[i], 1>>])
    /\ [][last'.op = "remove" =>
             Iter(items', heap') = Without(Iter(items, heap), last'.key)]_vars

\* C15 witness: the second of ten keys was removed from the indexed map and the
\* other nine, still indexed, come in their order.
C15_InteriorRemoved ==
    /\ last.op = "remove" /\ last.key = MapKeys[2] /\ last.ret # NoValue
    /\ map.present
    /\ Iter(items, heap) = [i \in 1..(Len(MapKeys) - 1) |->
                               <<MapKeys[IF i = 1 THEN 1 ELSE i + 1], 1>>]

\* C16: no map operation panics, whatever key or position it is given.
C16_NeverFails ==
    ~last.panic

\* The live Symbol values at address a: the keys of items, the keys the index
\* owns, and the Symbols the owner keeps outside the map.
KeptAt(a) == LET RECURSIVE Sum(_)
                 Sum(S) == IF S = {} THEN 0
                           ELSE LET c == CHOOSE y \in S : TRUE
                                IN handles[<<a, c>>] + Sum(S \ {c})
             IN Sum(HeldKeys)
HandlesIn(a) ==
    Cardinality({i \in DOMAIN items : items[i].key = a})
        + (IF a \in IndexKeys THEN 1 ELSE 0) + KeptAt(a)

\* C17: between the calls of the one thread that uses the map, the registry
\* holds the entry of "" and one entry per content that a live Symbol holds, no
\* two of equal content, each counted by its live Symbols (the entry of "" two
\* more), and no other block is allocated; the content never interned is not in
\* the registry and a get or contains_key of it found nothing; and a get or
\* contains_key leaves every block and the registry as they were.
C17_MapLeavesPoolExact ==
    /\ [](/\ symbols = {EmptyAddr} \cup {a \in MapAddrs : HandlesIn(a) > 0}
          /\ \A a \in MapAddrs : heap[a].alloc <=> a \in symbols
          /\ \A a \in symbols :
                heap[a].ref_count =
                    HandlesIn(a) + (IF a = EmptyAddr THEN PersistentCount ELSE 0)
          /\ \A a, b \in symbols : AsRef(heap, a) = AsRef(heap, b) => a = b
          /\ Lookup(heap, symbols, Absent) = Null
          /\ (last.op \in {"get", "contains_key"} /\ last.key = Absent) => ~last.found)
    /\ [][last'.op \in {"get", "contains_key"} => (heap' = heap /\ symbols' = symbols)]_vars

\* C17 witness: two keys in the map, a get of the content never interned found
\* nothing, and the registry holds three entries.
C17_SmokeTest ==
    /\ last.op = "get" /\ last.key = Absent /\ ~last.found
    /\ Len(items) = 2 /\ Cardinality(symbols) = 3

\* A Symbol::new in flight returns in this step.
NewReturns(t) == pc[t] \in {"new_locked", "new_alloc"} /\ pc'[t] = "idle"

\* C18: a live Symbol built from s serializes to the string s; the Symbol that a
\* deserialize of that string returns has the address of every Symbol of s that
\* is live meanwhile; and a failed decode makes no Symbol and leaves the blocks,
\* the registry and every thread as they were.
C18_SerdeRoundTrip ==
    /\ [](/\ \A x \in HandleIds : Live(x) => SymbolSerialize(heap, x[1]) = StrToken(x[2])
          /\ last.op = "serialize" => (last.found /\ last.key = last.retkey))
    /\ [][\A t \in Threads : NewReturns(t) =>
             \A x \in HandleIds : handles'[x] > handles[x] =>
                 /\ x[2] = arg[t]
                 /\ \A a \in Addrs : Live(<<a, x[2]>>) => a = x[1]]_vars
    /\ [][(last' # last /\ last'.op = "deserialize" /\ ~last'.found) =>
             UNCHANGED poolVars]_vars

\* C18 witness: a Symbol of "a" was serialized to "a" and, while it is live, a
\* deserialize of "a" has found its entry under the lock.
C18_DecodingLiveSymbol ==
    \E t \in Threads, a \in Addrs :
        /\ Live(<<a, "a">>) /\ last.op = "deserialize" /\ last.key = "a" /\ last.found
        /\ pc[t] = "new_locked" /\ arg[t] = "a" /\ ptr[t] = a

\* C19: whatever was written to the hasher before, a Symbol built from s writes
\* to it what the string s writes, for the Symbols the owner keeps and for the
\* keys of the fill; so the hashes agree, and contains_key by a borrowed string
\* finds in the index every key stored there as a Symbol.
C19_HashParity ==
    /\ \A x \in DOMAIN handles : handles[x] > 0 =>
          \A state \in {<<>>, <<1>>} : SymbolHash(state, heap, x[1]) = StrHash(state, x[2])
    /\ ops = 0 => \A i \in DOMAIN items :
          /\ SymbolHash(<<>>, heap, items[i].key) = StrHash(<<>>, MapKeys[i])
          /\ HashOfSymbol(heap, items[i].key) = HashOfStr(MapKeys[i])
          /\ map.present => TblContainsStr(heap, map.tbl, MapKeys[i])
    /\ map.present => \A i \in DOMAIN items :
          TblContainsStr(heap, map.tbl, AsRef(heap, items[i].key))
    /\ (last.op = "contains_key" /\ map.present) =>
          (last.found <=> \E i \in DOMAIN items : AsRef(heap, items[i].key) = last.key)

\* C19 witness: contains_key by a borrowed string found a key in the index of
\* ten keys, two pairs of which have equal hashes.
C19_FoundByBorrowedStr ==
    /\ last.op = "contains_key" /\ last.found
    /\ map.present /\ Len(items) = Len(MapKeys)
    /\ \E e, f \in map.tbl : e.key # f.key /\ e.hash = f.hash

\* C20: a Symbol::new whose fetch_add read zero on the entry it found returns no
\* handle to that entry and goes on to allocate; the allocation is a block that
\* was free, holds the value with count 1, is the block the one handle returned
\* points to, and is what the registry now maps the value to, the stale entry
\* being out of the registry; and as long as a dying block and a block that is
\* not dying hold the same content, the registry maps that content to the
\* latter.
C20_NoResurrection ==
    /\ [][\A t \in Threads :
             (pc[t] = "new_locked" /\ pc'[t] # "new_locked"
                  /\ heap[ptr[t]].alloc /\ heap[ptr[t]].ref_count = 0) =>
                 (pc'[t] = "new_alloc" /\ handles' = handles /\ lock' = t)]_vars
    /\ [][\A t \in Threads :
             (pc[t] = "new_alloc" /\ pc'[t] = "idle") =>
                 \E p \in Addrs :
                     /\ ~heap[p].alloc
                     /\ heap'[p] = [alloc |-> TRUE, content |-> arg[t], ref_count |-> FreshCount]
                     /\ handles' = AddHandle(p, arg[t])
                     /\ p \in symbols' /\ Lookup(heap', symbols', arg[t]) = p
                     /\ (ptr[t] # Null => ptr[t] \notin symbols')]_vars
    /\ [](\A d \in dying, p \in Addrs \ dying :
             (heap[d].alloc /\ heap[p].alloc /\ heap[d].content = heap[p].content)
                 => (d \notin symbols /\ Lookup(heap, symbols, heap[p].content) = p))

\* C20 witness: a new() has read zero on a dying entry and is about to allocate
\* in its place.
C20_FoundDyingEntry ==
    \E t \in Threads :
        /\ pc[t] = "new_alloc" /\ ptr[t] # Null /\ ptr[t] \in dying
        /\ ptr[t] \in symbols /\ heap[ptr[t]].alloc /\ heap[ptr[t]].content = arg[t]

\* ---- the claims about the final release ----

\* A destroy in flight returns in this step.
DestroyReturns(t) == pc[t] = "destroy" /\ pc'[t] = "idle"

\* C21: the destroy of the block at address a takes a, and nothing else, out of
\* the registry and frees a, and nothing else; an entry of the same content at
\* another address stays what the registry maps the content to, its block, its
\* count and every live handle being as they were.
C21_DestroyGuardsByIdentity ==
    [][\A t \in Threads : DestroyReturns(t) =>
          LET a == ptr[t]
          IN /\ symbols' = symbols \ {a}
             /\ ~heap'[a].alloc
             /\ \A p \in Addrs \ {a} : heap'[p] = heap[p]
             /\ handles' = handles
             /\ \A p \in symbols \ {a} :
                   (heap[a].alloc /\ heap[p].content = heap[a].content) =>
                       /\ p \in symbols'
                       /\ Lookup(heap', symbols', heap[p].content) = p]_vars

\* C21 witness: a thread is to destroy a block that is out of the registry,
\* while the registry holds the entry that a new() put in its place, with a
\* live handle.
C21_ReplacementInstalled ==
    \E t \in Threads, b \in Addrs :
        /\ pc[t] = "destroy" /\ heap[ptr[t]].alloc /\ ptr[t] \notin symbols
        /\ b # ptr[t] /\ b \in symbols /\ heap[b].alloc
        /\ heap[b].content = heap[ptr[t]].content
        /\ Live(<<b, heap[b].content>>)

\* C22: a block is finalized once: a thread that a drop has sent to destroy a
\* block finds it allocated and marked by that one drop, no other thread is to
\* destroy the same block, and the step that marks a block marks one whose count
\* was one and that no earlier drop has marked.
C22_ReleasedExactlyOnce ==
    /\ [](\A t \in Threads : pc[t] = "destroy" =>
             /\ heap[ptr[t]].alloc /\ ptr[t] \in dying
             /\ \A u \in Threads \ {t} : pc[u] = "destroy" => ptr[u] # ptr[t])
    /\ [][\A t \in Threads : (pc[t] = "idle" /\ pc'[t] = "destroy") =>
             /\ heap[ptr'[t]].alloc /\ heap[ptr'[t]].ref_count = 1
             /\ ptr'[t] \notin dying]_vars

\* ---- the claims about Ord for Symbol ----

\* C23: for any two live handles, cmp is Equal exactly when their addresses are
\* equal, and it is the byte-wise comparison of the contents they were built
\* from, whatever a read of a freed block yields.
C23_CmpAgreesWithEq ==
    \A x, y \in HandleIds : (Live(x) /\ Live(y)) =>
        /\ SymbolEq(x[1], y[1]) <=> (x[1] = y[1])
        /\ \A o \in SymbolCmp(heap, x[1], y[1]) :
              /\ (o = "Equal") <=> SymbolEq(x[1], y[1])
              /\ o = StrCmp(Bytes(x[2]), Bytes(y[2]))

\* ---- the claims about the positional and keyed map operations ----

\* The index, when there is one, holds the keys of the pairs and their positions.
InSync(it, h, m) ==
    m.present =>
        /\ {e.key : e \in m.tbl} = {it[i].key : i \in DOMAIN it}
        /\ \A i \in DOMAIN it : TblGet(h, m.tbl, it[i].key) = i

\* C24: insert_at(pos, k, v) with pos <= len does not panic; afterwards the pairs
\* are the ones that were there less the pair of k, in their order, with (k, v)
\* put in at position pos; the call returns the value k had, or None; and the
\* index, when there is one, matches the pairs.
C24_InsertAtPlaces ==
    [][(last'.op = "insert_at" /\ last'.index <= Len(items)) =>
          LET c == last'.key
              rest == Without(Iter(items, heap), c)
          IN /\ ~last'.panic
             /\ last'.index <= Len(rest)
             /\ Iter(items', heap') = VecInsert(rest, last'.index + 1, <<c, last'.val>>)
             /\ last'.ret = ScanValue(items, heap, c)
             /\ InSync(items', heap', map')]_vars

\* C25: pop_front takes the first pair out of a map that has one and returns it,
\* pop_back the last; the other pairs stay in their order; on an empty map each
\* returns None and leaves the pairs and the index as they were.
C25_PopsTakeTheEnds ==
    [][last'.op \in {"pop_front", "pop_back"} =>
          IF items = <<>>
          THEN ~last'.found /\ items' = items /\ map' = map
          ELSE LET n == Len(items)
                   i == IF last'.op = "pop_front" THEN 1 ELSE n
               IN /\ last'.found
                  /\ last'.retkey = AsRef(heap, items[i].key)
                  /\ last'.ret = items[i].val
                  /\ items' = VecRemove(items, i)]_vars

\* C26: remove(k) of a key returns the key's value, shortens items by one, and
\* leaves a map in which get and contains_key do not find k and every other
\* content has the value it had; remove(k) of anything else, a content never
\* interned included, returns None and leaves items and the index as they were.
C26_RemoveFrame ==
    [][last'.op = "remove" =>
          LET c == last'.key
              After == WorldOf(PoolOf(heap', symbols'), items', map')
          IN IF ScanValue(items, heap, c) # NoValue
             THEN /\ last'.ret = ScanValue(items, heap, c)
                  /\ Len(items') = Len(items) - 1
                  /\ MapGet(After, c).ret = NoValue
                  /\ ~MapContainsKey(After, c).found
                  /\ \A q \in MapContents \ {c} :
                        /\ ScanValue(items', heap', q) = ScanValue(items, heap, q)
                        /\ MapGet(After, q).ret = MapGet(World, q).ret
             ELSE /\ last'.ret = NoValue
                  /\ items' = items
                  /\ map' = map]_vars

\* C26 witness: the tenth key, whose hash the second key shares, was removed
\* from the indexed map, which keeps nine pairs, the second key among them, and
\* its index.
C26_RemovedCollidingKey ==
    /\ last.op = "remove" /\ last.key = MapKeys[SMALL_MAP_SIZE + 2] /\ last.ret = 1
    /\ map.present /\ Len(items) = SMALL_MAP_SIZE + 1
    /\ HashOfStr(last.key) = HashOfStr(MapKeys[2])
    /\ ScanValue(items, heap, last.key) = NoValue
    /\ ScanValue(items, heap, MapKeys[2]) # NoValue

\* C27: no two positions of items hold the same key, by address or by content,
\* so the length of items is the number of distinct keys.
C27_KeysUnique ==
    /\ \A i, j \in DOMAIN items :
          i # j => /\ items[i].key # items[j].key
                   /\ AsRef(heap, items[i].key) # AsRef(heap, items[j].key)
    /\ Len(items) = Cardinality(ItemKeys)
    /\ Len(items) = Cardinality({AsRef(heap, items[i].key) : i \in DOMAIN items})

\* C27 witness: insert_at of a key of the full map returned the value the key
\* had and left ten pairs, the key at the position given.
C27_ReinsertedAtPosition ==
    /\ last.op = "insert_at" /\ ~last.panic /\ last.ret # NoValue
    /\ Len(items) = Len(MapKeys)
    /\ AsRef(heap, items[last.index + 1].key) = last.key
====
